---- MODULE Spec2Model ----
(***************************************************************************)
(* The SQLite adapter of surajt6/nosql (src/sqlite/sqlite.go): a key-value *)
(* store kept in one two-column table per bucket, driven through           *)
(* database/sql.                                                           *)
(*                                                                         *)
(* The adapter's own code is modelled statement by statement.  The engine  *)
(* below it is modelled as SQLite behaves on a database file in its        *)
(* default (rollback-journal) mode with the driver's busy timeout:         *)
(*   - a transaction works on a private view that replaces the committed   *)
(*     tables at COMMIT and is dropped at ROLLBACK; DDL is transactional;  *)
(*   - a SELECT inside a transaction takes the SHARED lock and keeps it to *)
(*     the end of the transaction; a writing statement takes the RESERVED  *)
(*     lock, which only one connection can hold; a COMMIT that has changes *)
(*     to write needs every other connection's SHARED lock released;       *)
(*   - a statement that cannot get its lock ends with "database is locked" *)
(*     (taking the step while blocked is the timeout, not taking it is the *)
(*     wait);                                                              *)
(*   - a statement naming a missing table fails when prepared, with        *)
(*     "no such table: ...", and takes no lock;                            *)
(*   - a nil []byte argument is bound as NULL, an empty one as a           *)
(*     zero-length blob.                                                   *)
(* Bucket names are opaque tokens and keys are non-nil byte strings.       *)
(***************************************************************************)
EXTENDS Naturals, Sequences, FiniteSets, TLC

\* Callers (goroutines) sharing one DB value.
Procs == {1, 2}

\* Upper bound on the Operations of one Update.
MaxOps == 2

Buckets == {"b1", "b2"}
Keys == {"k1", "k2"}

\* A nil []byte, as opposed to the empty one "".
Nil == "<nil>"
\* The []byte values one caller passes.
SeqValues == {Nil, "", "v1"}

\* Column contents: no row for the key, SQL NULL, or a blob.
NoRow == "<norow>"
Null == "<null>"

VARIABLES
    tables,   \* committed database: bucket -> [exists, rows: key -> cell]
    leak,     \* strongest lock held by transactions left open for good
    pc,       \* per caller: "idle", "upd", "cas_begun", "cas_matched", "cas_written"
    tx,       \* per caller: its open native transaction
    call,     \* per caller: the call in flight
    ret,      \* per caller: what its last completed call returned
    factory   \* New: the Open calls made on each adapter, and its last return

vars == <<tables, leak, pc, tx, call, ret, factory>>

----------------------------------------------------------------------------
(* The database and the statements the adapter sends to it. *)

EmptyRows == [k \in Keys |-> NoRow]
NoTable == [exists |-> FALSE, rows |-> EmptyRows]
EmptyDB == [b \in Buckets |-> NoTable]

\* A statement's outcome on the view d it ran against: its error, the view it
\* leaves, whether it needs the write (RESERVED) lock, whether it changed
\* anything a COMMIT has to write, and the column value a SELECT fetched.
Outcome(err, db, write, dirty, cell) ==
    [err |-> err, db |-> db, write |-> write, dirty |-> dirty, cell |-> cell]

\* database/sql hands a nil []byte to the driver, which binds it as NULL.
Bind(v) == IF v = Nil THEN Null ELSE v

\* CREATE TABLE without IF NOT EXISTS.
createTableQryNoGuard(d, b) ==
    IF d[b].exists
    THEN Outcome("table already exists", d, FALSE, FALSE, NoRow)
    ELSE Outcome("nil", [d EXCEPT ![b] = [exists |-> TRUE, rows |-> EmptyRows]],
                 TRUE, TRUE, NoRow)

\* CREATE TABLE IF NOT EXISTS `b`(nkey BLOB(255) PRIMARY KEY, nvalue BLOB);
\* on an existing table it does nothing.
createTableQry(d, b) ==
    IF d[b].exists
    THEN Outcome("nil", d, FALSE, FALSE, NoRow)
    ELSE Outcome("nil", [d EXCEPT ![b] = [exists |-> TRUE, rows |-> EmptyRows]],
                 TRUE, TRUE, NoRow)

\* DROP TABLE `b`
deleteTableQry(d, b) ==
    IF d[b].exists
    THEN Outcome("nil", [d EXCEPT ![b] = NoTable], TRUE, TRUE, NoRow)
    ELSE Outcome("no such table", d, FALSE, FALSE, NoRow)

\* SELECT nvalue FROM `b` WHERE nkey = ?
getQry(d, b, k) ==
    IF d[b].exists
    THEN Outcome("nil", d, FALSE, FALSE, d[b].rows[k])
    ELSE Outcome("no such table", d, FALSE, FALSE, NoRow)

\* DELETE FROM `b` WHERE nkey = ?
delQry(d, b, k) ==
    IF d[b].exists
    THEN Outcome("nil", [d EXCEPT ![b].rows[k] = NoRow], TRUE,
                 d[b].rows[k] # NoRow, NoRow)
    ELSE Outcome("no such table", d, FALSE, FALSE, NoRow)

\* INSERT INTO `b`(nkey, nvalue) VALUES(?,?) ON CONFLICT(nkey) DO UPDATE SET nvalue = ?
insertUpdateQry(d, b, k, v) ==
    IF d[b].exists
    THEN Outcome("nil", [d EXCEPT ![b].rows[k] = Bind(v)], TRUE, TRUE, NoRow)
    ELSE Outcome("no such table", d, FALSE, FALSE, NoRow)

\* The same SELECT as getQry: no FOR UPDATE clause.
getQryForUpdate(d, b, k) == getQry(d, b, k)

\* Scan(&val) with val a string: sql.ErrNoRows without a row, a conversion
\* error on NULL, the bytes otherwise ([]byte(val) is never nil).
ScanString(o) ==
    IF o.err # "nil" THEN [err |-> o.err, val |-> Nil]
    ELSE IF o.cell = NoRow THEN [err |-> "sql.ErrNoRows", val |-> Nil]
    ELSE IF o.cell = Null THEN [err |-> "converting NULL to string", val |-> Nil]
    ELSE [err |-> "nil", val |-> o.cell]

\* Scan(&current) with current a []byte: NULL scans as nil; without a row
\* current keeps its zero value, nil.
ScanBytes(o) ==
    IF o.err # "nil" THEN [err |-> o.err, val |-> Nil]
    ELSE IF o.cell = NoRow THEN [err |-> "sql.ErrNoRows", val |-> Nil]
    ELSE IF o.cell = Null THEN [err |-> "nil", val |-> Nil]
    ELSE [err |-> "nil", val |-> o.cell]

\* bytes.Equal: nil and empty are equal.
BytesEqual(a, b) == (IF a = Nil THEN "" ELSE a) = (IF b = Nil THEN "" ELSE b)

\* strings.HasPrefix(estr, "no such table")
HasPrefixNoSuchTable(err) == err = "no such table"

\* The predicates callers classify errors with.
IsErrNotFound(err) == err = "database.ErrNotFound"
IsErrOpNotSupported(err) == err = "database.ErrOpNotSupported"

----------------------------------------------------------------------------
(* Native transactions and locks. *)

NoTx == [lock |-> "none", view |-> EmptyDB, dirty |-> FALSE]

\* What a transaction t reads: its own view once it has written, the
\* committed tables before.
ViewOf(t) == IF t.lock = "reserved" THEN t.view ELSE tables

\* Another connection holds the RESERVED lock.
WriteBlocked(p) ==
    \/ leak = "reserved"
    \/ \E q \in Procs \ {p} : tx[q].lock = "reserved"

\* Another connection holds a SHARED lock, which a COMMIT with changes waits for.
CommitBlocked(p) ==
    \/ leak \in {"shared", "reserved"}
    \/ \E q \in Procs \ {p} : tx[q].lock # "none"

\* db.db.Exec / QueryRow outside a transaction: the statement runs and
\* commits on its own.  The error it ends with:
AutoErr(p, o) ==
    IF o.err # "nil" THEN o.err
    ELSE IF o.write /\ WriteBlocked(p) THEN "database is locked"
    ELSE IF o.dirty /\ CommitBlocked(p) THEN "database is locked"
    ELSE "nil"

\* sqlTx.Exec / QueryRow inside caller p's transaction.  The error it ends with:
TxErr(p, o) ==
    IF o.err # "nil" THEN o.err
    ELSE IF o.write /\ WriteBlocked(p) THEN "database is locked"
    ELSE "nil"

\* ... and the transaction after a statement that succeeded.
TxAfter(t, o) ==
    IF o.write
    THEN [lock |-> "reserved", view |-> o.db, dirty |-> t.dirty \/ o.dirty]
    ELSE [t EXCEPT !.lock = IF @ = "none" THEN "shared" ELSE @]

\* The strongest of two locks.
LockRank(l) == CASE l = "no" -> 0 [] l = "none" -> 1 [] l = "shared" -> 2 [] l = "reserved" -> 3
MaxLock(a, b) == IF LockRank(a) >= LockRank(b) THEN a ELSE b

----------------------------------------------------------------------------
(* Calls and what they return. *)

NoRival == "<none>"

\* A call's record: its arguments while it is in flight, plus what it
\* returned once it has.  For an Update: n counts the Operations executed,
\* cmd is the command of the last one, val and swapped its Result and Swapped
\* fields.  History kept for the properties: txend (what became of the native
\* transaction), dirty (whether it had changes to commit), pre (the committed
\* tables when Update was called, kept on request) and, for a CmpAndSwap in
\* flight, rival (the value a concurrent CmpAndSwap of the same key and the
\* same oldValue swapped in, while that value stands) and, for an Update in
\* flight, read (another caller's Get or List returned while the transaction
\* had uncommitted changes).
\* The Result and Swapped fields of an Operation nothing was assigned to.
NoResult == [cmd |-> "-", val |-> Nil, swapped |-> FALSE]

\* The Result and Swapped fields of the Operation that Update, in call c,
\* ran last.
ResultOf(c) == [cmd |-> c.cmd, val |-> c.val, swapped |-> c.swapped]

NoCall ==
    [op |-> "none", bucket |-> "-", key |-> "-", value |-> Nil, old |-> Nil,
     cmd |-> "-", n |-> 0, err |-> "nil", wrap |-> "", val |-> Nil,
     swapped |-> FALSE, entries |-> {}, txend |-> "-", dirty |-> FALSE,
     pre |-> EmptyDB, rival |-> NoRival, read |-> FALSE, before |-> NoResult]

\* The column of key k in bucket b.
Cell(d, b, k) == IF d[b].exists THEN d[b].rows[k] ELSE "<no table>"

NewRival(q, r) ==
    LET c == call[q]
    IN IF r.op = "CmpAndSwap" /\ r.swapped /\ r.bucket = c.bucket /\ r.key = c.key
          /\ BytesEqual(r.old, c.old)
       THEN r.value
       ELSE IF Cell(tables', c.bucket, c.key) # Cell(tables, c.bucket, c.key)
       THEN NoRival
       ELSE c.rival

\* Caller p's call returns r.
Return(p, r) ==
    /\ ret' = [ret EXCEPT ![p] = r]
    /\ call' = [q \in Procs |->
                  IF q = p THEN NoCall
                  ELSE IF call[q].op = "CmpAndSwap"
                  THEN [call[q] EXCEPT !.rival = NewRival(q, r)]
                  ELSE IF call[q].op = "Update" /\ r.op \in {"Get", "List"} /\ tx[q].dirty
                  THEN [call[q] EXCEPT !.read = TRUE]
                  ELSE call[q]]
    /\ pc' = [pc EXCEPT ![p] = "idle"]

\* func (db *DB) CreateTable(bucket []byte) error
CreateTable(p, b) ==
    /\ pc[p] = "idle"
    /\ UNCHANGED factory
    /\ LET o == createTableQry(tables, b)
           e == AutoErr(p, o)
       IN /\ tables' = IF e = "nil" THEN o.db ELSE tables
          /\ Return(p, [NoCall EXCEPT !.op = "CreateTable", !.bucket = b, !.err = e,
                           !.wrap = IF e = "nil" THEN "" ELSE "failed to create table"])
    /\ UNCHANGED <<leak, tx>>

\* func (db *DB) Del(bucket []byte, key []byte) error
Del(p, b, k) ==
    /\ pc[p] = "idle"
    /\ UNCHANGED factory
    /\ LET o == delQry(tables, b, k)
           e == AutoErr(p, o)
       IN /\ tables' = IF e = "nil" THEN o.db ELSE tables
          /\ Return(p, [NoCall EXCEPT !.op = "Del", !.bucket = b, !.key = k, !.err = e,
                           !.wrap = IF e = "nil" THEN "" ELSE "failed to delete"])
    /\ UNCHANGED <<leak, tx>>

\* func (db *DB) DeleteTable(bucket []byte) error
DeleteTable(p, b) ==
    /\ pc[p] = "idle"
    /\ UNCHANGED factory
    /\ LET o == deleteTableQry(tables, b)
           e == AutoErr(p, o)
       IN /\ tables' = IF e = "nil" THEN o.db ELSE tables
          /\ Return(p, [NoCall EXCEPT !.op = "DeleteTable", !.bucket = b,
                           !.err = IF e = "nil" THEN "nil"
                                   ELSE IF HasPrefixNoSuchTable(e) THEN "database.ErrNotFound"
                                   ELSE e,
                           !.wrap = IF e = "nil" THEN ""
                                    ELSE IF HasPrefixNoSuchTable(e) THEN e
                                    ELSE "failed to delete table"])
    /\ UNCHANGED <<leak, tx>>

\* What Get returns on the tables d.
GetResult(d, b, k) ==
    LET s == ScanString(getQry(d, b, k))
    IN IF s.err = "sql.ErrNoRows"
       THEN [err |-> "database.ErrNotFound", wrap |-> "not found", val |-> Nil]
       ELSE IF s.err # "nil"
       THEN [err |-> s.err, wrap |-> "failed to get", val |-> Nil]
       ELSE [err |-> "nil", wrap |-> "", val |-> s.val]

\* func (db *DB) Get(bucket []byte, key []byte) (ret []byte, err error)
Get(p, b, k) ==
    /\ pc[p] = "idle"
    /\ UNCHANGED factory
    /\ UNCHANGED <<tables, leak, tx>>
    /\ LET g == GetResult(tables, b, k)
       IN Return(p, [NoCall EXCEPT !.op = "Get", !.bucket = b, !.key = k,
                        !.err = g.err, !.wrap = g.wrap, !.val = g.val])

\* What List returns on the tables d: one entry per row, unless the table is
\* missing or a row's value does not scan into a string.
ListResult(d, b) ==
    IF ~d[b].exists
    THEN [err |-> "database.ErrNotFound", wrap |-> "no such table", entries |-> {}]
    ELSE IF \E k \in Keys : d[b].rows[k] = Null
    THEN [err |-> "converting NULL to string",
          wrap |-> "error getting key and value from row", entries |-> {}]
    ELSE [err |-> "nil", wrap |-> "",
          entries |-> {[Bucket |-> b, Key |-> k, Value |-> d[b].rows[k]] :
                          k \in {x \in Keys : d[b].rows[x] # NoRow}}]

\* func (db *DB) List(bucket []byte) ([]*database.Entry, error)
List(p, b) ==
    /\ pc[p] = "idle"
    /\ UNCHANGED factory
    /\ UNCHANGED <<tables, leak, tx>>
    /\ LET l == ListResult(tables, b)
       IN Return(p, [NoCall EXCEPT !.op = "List", !.bucket = b, !.err = l.err,
                        !.wrap = l.wrap, !.entries = l.entries])

\* func (db *DB) Set(bucket []byte, key []byte, value []byte) error
Set(p, b, k, v) ==
    /\ pc[p] = "idle"
    /\ UNCHANGED factory
    /\ LET o == insertUpdateQry(tables, b, k, v)
           e == AutoErr(p, o)
       IN /\ tables' = IF e = "nil" THEN o.db ELSE tables
          /\ Return(p, [NoCall EXCEPT !.op = "Set", !.bucket = b, !.key = k, !.value = v,
                           !.err = e, !.wrap = IF e = "nil" THEN "" ELSE "failed to set"])
    /\ UNCHANGED <<leak, tx>>

----------------------------------------------------------------------------
(* Ending a native transaction. *)

\* sqlTx.Commit() on the transaction t of caller p: the error it ends with.  A
\* COMMIT that fails has the driver roll the transaction back.
CommitErr(p, t) ==
    IF t.dirty /\ CommitBlocked(p) THEN "database is locked" ELSE "nil"

\* The committed tables after sqlTx.Commit() succeeded on t.
Commit(t) == ViewOf(t)

\* A rollback closure that calls sqlTx.Commit().
CommitInsteadOfRollback(t) == ViewOf(t)

\* The committed tables after sqlTx.Rollback() on t.
Rollback(t) == tables

----------------------------------------------------------------------------
(* cmpAndSwap and DB.CmpAndSwap. *)

\* A cmpAndSwap whose SELECT runs on db.db, outside the transaction.
cmpAndSwapReadOutsideTx(t, b, k, old) ==
    LET s == ScanBytes(getQryForUpdate(tables, b, k))
    IN IF s.err \notin {"nil", "sql.ErrNoRows"}
       THEN [val |-> Nil, match |-> FALSE, err |-> s.err, tx |-> t]
       ELSE [val |-> s.val, match |-> BytesEqual(s.val, old), err |-> "nil", tx |-> t]

\* cmpAndSwap up to its comparison: the SELECT on the transaction t, the scan
\* into current, and bytes.Equal(current, oldValue).
cmpAndSwapRead(t, b, k, old) ==
    LET sel == getQryForUpdate(ViewOf(t), b, k)
        s == ScanBytes(sel)
    IN IF s.err \notin {"nil", "sql.ErrNoRows"}
       THEN [val |-> Nil, match |-> FALSE, err |-> s.err, tx |-> t]
       ELSE [val |-> s.val, match |-> BytesEqual(s.val, old), err |-> "nil",
             tx |-> TxAfter(t, sel)]

\* cmpAndSwap after a comparison that matched: the upsert of newValue.
cmpAndSwapWrite(p, t, b, k, new) ==
    LET o == insertUpdateQry(ViewOf(t), b, k, new)
        e == TxErr(p, o)
    IN IF e # "nil"
       THEN [val |-> Nil, swapped |-> FALSE, err |-> e, wrap |-> "failed to set", tx |-> t]
       ELSE [val |-> new, swapped |-> TRUE, err |-> "nil", wrap |-> "", tx |-> TxAfter(t, o)]

\* func cmpAndSwap(sqlTx, bucket, key, oldValue, newValue) ([]byte, bool, error)
cmpAndSwap(p, t, b, k, old, new) ==
    LET r == cmpAndSwapRead(t, b, k, old)
    IN IF r.err # "nil" \/ ~r.match
       THEN [val |-> r.val, swapped |-> FALSE, err |-> r.err, wrap |-> "", tx |-> r.tx]
       ELSE cmpAndSwapWrite(p, r.tx, b, k, new)

\* DB.CmpAndSwap: sqlTx, err := db.db.Begin().  snap asks for the committed
\* tables to be remembered in the call's record.
CasBegin(p, b, k, old, new, snap) ==
    /\ pc[p] = "idle"
    /\ UNCHANGED factory
    /\ pc' = [pc EXCEPT ![p] = "cas_begun"]
    /\ tx' = [tx EXCEPT ![p] = NoTx]
    /\ call' = [call EXCEPT ![p] = [NoCall EXCEPT !.op = "CmpAndSwap", !.bucket = b,
                                       !.key = k, !.old = old, !.value = new,
                                       !.pre = IF snap THEN tables ELSE EmptyDB]]
    /\ ret' = [ret EXCEPT ![p] = NoCall]
    /\ UNCHANGED <<tables, leak>>

\* DB.CmpAndSwap through cmpAndSwap's read and comparison.  An error, or a
\* value other than oldValue, ends the call with a Rollback.
CasRead(p) ==
    /\ pc[p] = "cas_begun"
    /\ UNCHANGED factory
    /\ LET c == call[p]
           r == cmpAndSwapRead(tx[p], c.bucket, c.key, c.old)
       IN IF r.err = "nil" /\ r.match
          THEN /\ pc' = [pc EXCEPT ![p] = "cas_matched"]
               /\ tx' = [tx EXCEPT ![p] = r.tx]
               /\ UNCHANGED <<tables, call, ret>>
          ELSE /\ tables' = Rollback(r.tx)
               /\ tx' = [tx EXCEPT ![p] = NoTx]
               /\ Return(p, [c EXCEPT !.err = r.err,
                                !.val = IF r.err = "nil" THEN r.val ELSE Nil,
                                !.swapped = FALSE, !.txend = "rolledback"])
    /\ UNCHANGED leak

\* DB.CmpAndSwap through cmpAndSwap's upsert.  An error ends the call with a
\* Rollback.
CasWrite(p) ==
    /\ pc[p] = "cas_matched"
    /\ UNCHANGED factory
    /\ LET c == call[p]
           w == cmpAndSwapWrite(p, tx[p], c.bucket, c.key, c.value)
       IN IF w.err = "nil"
          THEN /\ pc' = [pc EXCEPT ![p] = "cas_written"]
               /\ tx' = [tx EXCEPT ![p] = w.tx]
               /\ UNCHANGED <<tables, call, ret>>
          ELSE /\ tables' = Rollback(w.tx)
               /\ tx' = [tx EXCEPT ![p] = NoTx]
               /\ Return(p, [c EXCEPT !.err = w.err, !.wrap = w.wrap, !.val = Nil,
                                !.swapped = FALSE, !.txend = "rolledback"])
    /\ UNCHANGED leak

\* DB.CmpAndSwap, case swapped: sqlTx.Commit()
CasCommit(p) ==
    /\ pc[p] = "cas_written"
    /\ UNCHANGED factory
    /\ LET c == [call[p] EXCEPT !.dirty = tx[p].dirty]
           e == CommitErr(p, tx[p])
       IN /\ tables' = IF e = "nil" THEN Commit(tx[p]) ELSE Rollback(tx[p])
          /\ Return(p, IF e = "nil"
                       THEN [c EXCEPT !.val = c.value, !.swapped = TRUE, !.txend = "committed"]
                       ELSE [c EXCEPT !.err = e, !.wrap = "failed to commit MySQL transaction",
                                      !.val = Nil, !.swapped = FALSE, !.txend = "rolledback"])
    /\ tx' = [tx EXCEPT ![p] = NoTx]
    /\ UNCHANGED leak

----------------------------------------------------------------------------
(* DB.Update. *)

\* An Operation: Cmd, Bucket, Key, Value, CmpValue (fields a command does not
\* read are left at their zero value).
Op(cmd, b, k, v, old) == [Cmd |-> cmd, Bucket |-> b, Key |-> k, Value |-> v, CmpValue |-> old]

\* What one Operation of the loop comes to: how Update goes on ("next": the
\* loop continues, "rollback": return rollback(err), "return": return err with
\* no Rollback), its error, the transaction after it, the committed tables
\* after it, and what it leaves in q.Result and q.Swapped.
Done(how, err, wrap, t, val, swapped) ==
    [how |-> how, err |-> err, wrap |-> wrap, tx |-> t, committed |-> tables,
     val |-> val, swapped |-> swapped]

\* A statement run with sqlTx.Exec whose error, if any, goes to rollback.
ExecOrRollback(p, t, o, msg) ==
    LET e == TxErr(p, o)
    IN IF e # "nil"
       THEN Done("rollback", e, msg, t, Nil, FALSE)
       ELSE Done("next", "nil", "", TxAfter(t, o), Nil, FALSE)

\* case database.CreateTable
OpCreateTable(p, t, q) ==
    ExecOrRollback(p, t, createTableQry(ViewOf(t), q.Bucket), "failed to create table")

\* case database.DeleteTable: an error is returned as it is (as ErrNotFound
\* when it says "no such table"), without a Rollback
OpDeleteTable(p, t, q) ==
    LET o == deleteTableQry(ViewOf(t), q.Bucket)
        e == TxErr(p, o)
    IN IF e # "nil"
       THEN IF HasPrefixNoSuchTable(e)
            THEN Done("return", "database.ErrNotFound", e, t, Nil, FALSE)
            ELSE Done("return", e, "failed to delete table", t, Nil, FALSE)
       ELSE Done("next", "nil", "", TxAfter(t, o), Nil, FALSE)

\* A Get case that runs its SELECT with db.db.QueryRow, outside the transaction.
OpGetOutsideTx(p, t, q) ==
    LET s == ScanString(getQry(tables, q.Bucket, q.Key))
    IN IF s.err = "sql.ErrNoRows"
       THEN Done("rollback", "database.ErrNotFound", "not found", t, Nil, FALSE)
       ELSE IF s.err # "nil"
       THEN Done("rollback", s.err, "failed to get", t, Nil, FALSE)
       ELSE Done("next", "nil", "", t, s.val, FALSE)

\* case database.Get
OpGet(p, t, q) ==
    LET sel == getQry(ViewOf(t), q.Bucket, q.Key)
        s == ScanString(sel)
    IN IF s.err = "sql.ErrNoRows"
       THEN Done("rollback", "database.ErrNotFound", "not found", t, Nil, FALSE)
       ELSE IF s.err # "nil"
       THEN Done("rollback", s.err, "failed to get", t, Nil, FALSE)
       ELSE Done("next", "nil", "", TxAfter(t, sel), s.val, FALSE)

\* A Set case that runs its statement with db.db.Exec, outside the transaction.
OpSetOutsideTx(p, t, q) ==
    LET o == insertUpdateQry(tables, q.Bucket, q.Key, q.Value)
        e == AutoErr(p, o)
    IN IF e # "nil"
       THEN Done("rollback", e, "failed to set", t, Nil, FALSE)
       ELSE [Done("next", "nil", "", t, Nil, FALSE) EXCEPT !.committed = o.db]

\* case database.Set
OpSet(p, t, q) ==
    ExecOrRollback(p, t, insertUpdateQry(ViewOf(t), q.Bucket, q.Key, q.Value), "failed to set")

\* case database.Delete
OpDelete(p, t, q) ==
    ExecOrRollback(p, t, delQry(ViewOf(t), q.Bucket, q.Key), "failed to delete")

\* case database.CmpAndSwap
OpCmpAndSwap(p, t, q) ==
    LET r == cmpAndSwap(p, t, q.Bucket, q.Key, q.CmpValue, q.Value)
    IN IF r.err # "nil"
       THEN Done("rollback", r.err, "failed to load-or-store", r.tx, r.val, r.swapped)
       ELSE Done("next", "nil", "", r.tx, r.val, r.swapped)

\* An unsupported command that is skipped.
OpSkipped(p, t, q) ==
    Done("next", "nil", "", t, Nil, FALSE)

\* case database.CmpOrRollback, and default
OpNotSupported(p, t, q) ==
    Done("return", "database.ErrOpNotSupported", "", t, Nil, FALSE)

\* switch q.Cmd
Operation(p, t, q) ==
    CASE q.Cmd = "CreateTable" -> OpCreateTable(p, t, q)
      [] q.Cmd = "DeleteTable" -> OpDeleteTable(p, t, q)
      [] q.Cmd = "Get" -> OpGet(p, t, q)
      [] q.Cmd = "Set" -> OpSet(p, t, q)
      [] q.Cmd = "Delete" -> OpDelete(p, t, q)
      [] q.Cmd = "CmpAndSwap" -> OpCmpAndSwap(p, t, q)
      [] OTHER -> OpNotSupported(p, t, q)

\* Update: sqlTx, err := db.db.Begin().  snap asks for the committed tables
\* to be remembered in the call's record.
UpdateBegin(p, snap) ==
    /\ pc[p] = "idle"
    /\ UNCHANGED factory
    /\ pc' = [pc EXCEPT ![p] = "upd"]
    /\ tx' = [tx EXCEPT ![p] = NoTx]
    /\ call' = [call EXCEPT ![p] = [NoCall EXCEPT !.op = "Update",
                                       !.pre = IF snap THEN tables ELSE EmptyDB]]
    /\ ret' = [ret EXCEPT ![p] = NoCall]
    /\ UNCHANGED <<tables, leak>>

\* Update's loop body on the next Operation q of the transaction.
UpdateOp(p, q) ==
    /\ pc[p] = "upd"
    /\ UNCHANGED factory
    /\ call[p].n < MaxOps
    /\ LET r == Operation(p, tx[p], q)
           c == [call[p] EXCEPT !.cmd = q.Cmd, !.val = r.val, !.swapped = r.swapped,
                                !.dirty = r.tx.dirty]
       IN CASE r.how = "next" ->
                 /\ tables' = r.committed
                 /\ call' = [call EXCEPT ![p] = [c EXCEPT !.n = @ + 1]]
                 /\ tx' = [tx EXCEPT ![p] = r.tx]
                 /\ UNCHANGED <<pc, ret, leak>>
            [] r.how = "rollback" ->
                 \* rollback(err): sqlTx.Rollback(), then the error wrapped
                 /\ tables' = Rollback(r.tx)
                 /\ tx' = [tx EXCEPT ![p] = NoTx]
                 /\ Return(p, [c EXCEPT !.err = r.err, !.wrap = "UPDATE failed",
                                  !.txend = "rolledback", !.before = ResultOf(call[p])])
                 /\ UNCHANGED leak
            [] r.how = "return" ->
                 \* the transaction is neither committed nor rolled back:
                 \* its connection keeps its locks
                 /\ tables' = r.committed
                 /\ leak' = MaxLock(leak, r.tx.lock)
                 /\ tx' = [tx EXCEPT ![p] = NoTx]
                 /\ Return(p, [c EXCEPT !.err = r.err, !.wrap = r.wrap, !.txend = "open",
                                  !.before = ResultOf(call[p])])

\* An Update that does not look at the error of sqlTx.Commit().
UpdateCommitUnchecked(p) ==
    /\ pc[p] = "upd"
    /\ UNCHANGED factory
    /\ tables' = IF CommitErr(p, tx[p]) = "nil" THEN Commit(tx[p]) ELSE Rollback(tx[p])
    /\ Return(p, [call[p] EXCEPT !.txend = "committed"])
    /\ tx' = [tx EXCEPT ![p] = NoTx]
    /\ UNCHANGED leak

\* Update after the loop: sqlTx.Commit(), and rollback(err) if it fails (the
\* Rollback of a transaction whose Commit was tried returns sql.ErrTxDone).
UpdateCommit(p) ==
    /\ pc[p] = "upd"
    /\ UNCHANGED factory
    /\ LET c == call[p]
           e == CommitErr(p, tx[p])
       IN /\ tables' = IF e = "nil" THEN Commit(tx[p]) ELSE Rollback(tx[p])
          /\ Return(p, IF e = "nil"
                       THEN [c EXCEPT !.txend = "committed"]
                       ELSE [c EXCEPT !.err = e,
                                      !.wrap = "UPDATE failed, unable to rollback transaction",
                                      !.txend = "rolledback"])
    /\ tx' = [tx EXCEPT ![p] = NoTx]
    /\ UNCHANGED leak

----------------------------------------------------------------------------
(* The factory.  A driver name is the sequence of its characters. *)

MaxOpens == 3

UpperCase == <<"A", "B", "C", "D", "E", "F", "G", "H", "I", "J", "K", "L", "M", "N", "O", "P", "Q", "R", "S", "T", "U", "V", "W", "X", "Y", "Z">>
LowerCase == <<"a", "b", "c", "d", "e", "f", "g", "h", "i", "j", "k", "l", "m", "n", "o", "p", "q", "r", "s", "t", "u", "v", "w", "x", "y", "z">>

\* strings.ToLower, on the letters of the driver names
ToLowerRune(c) ==
    IF \E i \in 1..26 : UpperCase[i] = c
    THEN LowerCase[CHOOSE i \in 1..26 : UpperCase[i] = c]
    ELSE c

\* A switch that compares the driver name as it was given.
AsGiven(s) == s

\* strings.ToLower(driver)
ToLower(s) == [i \in 1..Len(s) |-> ToLowerRune(s[i])]

\* Available db driver types
BadgerDriver == <<"b", "a", "d", "g", "e", "r">>
BadgerV1Driver == <<"b", "a", "d", "g", "e", "r", "v", "1">>
BadgerV2Driver == <<"b", "a", "d", "g", "e", "r", "v", "2">>
BBoltDriver == <<"b", "b", "o", "l", "t">>
MySQLDriver == <<"m", "y", "s", "q", "l">>
PostgreSQLDriver == <<"p", "o", "s", "t", "g", "r", "e", "s", "q", "l">>
SQLiteDriver == <<"s", "q", "l", "i", "t", "e">>

Adapters == {"badgerV1.DB", "badgerV2.DB", "bolt.DB", "mysql.DB", "postgresql.DB", "sqlite.DB"}

\* The cases of New's switch: the adapter made for name d, "nil" in the
\* default case.
Adapter(d) ==
    CASE d \in {BadgerDriver, BadgerV1Driver} -> "badgerV1.DB"
      [] d = BadgerV2Driver -> "badgerV2.DB"
      [] d = BBoltDriver -> "bolt.DB"
      [] d = MySQLDriver -> "mysql.DB"
      [] d = PostgreSQLDriver -> "postgresql.DB"
      [] d = SQLiteDriver -> "sqlite.DB"
      [] OTHER -> "nil"

\* The Open calls made so far, on all adapters.
RECURSIVE OpenCalls(_, _)
OpenCalls(opens, as) ==
    IF as = {} THEN 0
    ELSE LET a == CHOOSE x \in as : TRUE
         IN opens[a] + OpenCalls(opens, as \ {a})

NoFactory == [opens |-> [a \in Adapters |-> 0], driver |-> <<>>, db |-> "nil", err |-> "nil"]

\* func New(driver, dataSourceName string, opt ...Option) (db database.DB, err error)
\* openErr is what db.Open(dataSourceName, opt...) returns.
New(driver, openErr) ==
    /\ LET a == Adapter(ToLower(driver))
       IN IF a = "nil"
          THEN factory' = [factory EXCEPT !.driver = driver, !.db = "nil",
                                          !.err = "database not supported"]
          ELSE /\ OpenCalls(factory.opens, Adapters) < MaxOpens
               /\ factory' = [opens |-> [factory.opens EXCEPT ![a] = @ + 1],
                              driver |-> driver, db |-> a, err |-> openErr]
    /\ UNCHANGED <<tables, leak, pc, tx, call, ret>>

----------------------------------------------------------------------------
(* The specifications. *)

\* A freshly opened, empty database.
Init ==
    /\ tables = EmptyDB
    /\ leak = "no"
    /\ pc = [p \in Procs |-> "idle"]
    /\ tx = [p \in Procs |-> NoTx]
    /\ call = [p \in Procs |-> NoCall]
    /\ ret = [p \in Procs |-> NoCall]
    /\ factory = NoFactory

\* Bucket b2 only ever holds k1 = "v1"; b1 holds any value under either key.
Writes == ({"b1"} \X Keys \X SeqValues) \cup {<<"b2", "k1", "v1">>}
Reads == Buckets \X Keys

\* The Operations of the transactions tried.
Ops ==
    {Op(cmd, b, "", Nil, Nil) : cmd \in {"CreateTable", "DeleteTable"}, b \in Buckets}
    \cup {Op(cmd, r[1], r[2], Nil, Nil) : cmd \in {"Get", "Delete"}, r \in Reads}
    \cup {Op("Set", w[1], w[2], w[3], Nil) : w \in Writes}
    \cup {Op("CmpAndSwap", w[1], w[2], w[3], old) : w \in Writes, old \in SeqValues}
    \cup {Op(cmd, "", "", Nil, Nil) : cmd \in {"CmpOrRollback", "Unknown"}}

\* One caller: every call returns before the next one starts.
Next ==
    \/ \E b \in Buckets : CreateTable(1, b)
    \/ \E b \in Buckets : DeleteTable(1, b)
    \/ \E r \in Reads : Get(1, r[1], r[2])
    \/ \E w \in Writes : Set(1, w[1], w[2], w[3])
    \/ \E r \in Reads : Del(1, r[1], r[2])
    \/ \E b \in Buckets : List(1, b)
    \/ \E w \in Writes, old \in SeqValues : CasBegin(1, w[1], w[2], old, w[3], TRUE)
    \/ CasRead(1)
    \/ CasWrite(1)
    \/ CasCommit(1)
    \/ UpdateBegin(1, TRUE)
    \/ \E q \in Ops : UpdateOp(1, q)
    \/ UpdateCommit(1)

Spec == Init /\ [][Next]_vars

\* Two callers working on one key of one bucket with CmpAndSwap, Set and Del.
CasValues == {"", "v1", "v2"}

CasNext ==
    \E p \in Procs :
        \/ CreateTable(p, "b1")
        \/ \E v \in CasValues : Set(p, "b1", "k1", v)
        \/ Del(p, "b1", "k1")
        \/ \E old \in CasValues, new \in CasValues : CasBegin(p, "b1", "k1", old, new, FALSE)
        \/ CasRead(p)
        \/ CasWrite(p)
        \/ CasCommit(p)

CasSpec == Init /\ [][CasNext]_vars

\* Caller 1 runs transactions on bucket b1 while caller 2 reads it.
IsoOps ==
    {Op("CreateTable", "b1", "", Nil, Nil), Op("DeleteTable", "b1", "", Nil, Nil),
     Op("DeleteTable", "b2", "", Nil, Nil), Op("Get", "b1", "k2", Nil, Nil),
     Op("Set", "b1", "k1", "v1", Nil), Op("Set", "b1", "k2", "v1", Nil),
     Op("Set", "b1", "k1", "", Nil), Op("Delete", "b1", "k1", Nil, Nil),
     Op("CmpAndSwap", "b1", "k1", "", "v1"), Op("Unknown", "", "", Nil, Nil)}

IsoNext ==
    \/ CreateTable(1, "b1")
    \/ UpdateBegin(1, TRUE)
    \/ \E q \in IsoOps : UpdateOp(1, q)
    \/ UpdateCommit(1)
    \/ \E k \in Keys : Get(2, "b1", k)
    \/ List(2, "b1")

IsoSpec == Init /\ [][IsoNext]_vars

----------------------------------------------------------------------------
(* Properties of one caller's calls (Spec). *)

\* The value of key k of bucket b as a byte string, for a key that is set.
Stored(d, b, k) == ScanBytes(getQry(d, b, k)).val

IsSet(d, b, k) == d[b].exists /\ d[b].rows[k] # NoRow

\* Every key but k of b, and every bucket but b, is in e what it is in d.
OthersUnchanged(d, e, b, k) ==
    /\ \A c \in Buckets \ {b} : e[c] = d[c]
    /\ e[b].exists = d[b].exists
    /\ \A j \in Keys \ {k} : e[b].rows[j] = d[b].rows[j]

\* Get on the tables d returns the bytes v.
GetReturns(d, b, k, v) ==
    LET g == GetResult(d, b, k) IN g.err = "nil" /\ BytesEqual(g.val, v)

\* C1: whenever Update has returned an error, whichever Operation failed and
\* wherever in the transaction, the committed tables (the buckets and the
\* value of every key) are what they were when Update was called.
C1_UpdateAllOrNothing ==
    ret[1].op = "Update" /\ ret[1].err # "nil" => tables = ret[1].pre

\* An Update failed at its second Operation after its first one had written,
\* in a database holding data.
C1_Witness ==
    /\ ret[1].op = "Update" /\ ret[1].err # "nil"
    /\ ret[1].n = 1 /\ ret[1].dirty
    /\ \E b \in Buckets, k \in Keys : IsSet(tables, b, k)

\* C4: whenever Update has returned, its native transaction has been
\* committed or rolled back; after an error it has been rolled back.
C4_NoTransactionLeftOpen ==
    ret[1].op = "Update" =>
        /\ ret[1].txend \in {"committed", "rolledback"}
        /\ ret[1].err # "nil" => ret[1].txend = "rolledback"

\* C3: CmpAndSwap(b, k, X, W) on a key whose value is V: when X equals V it
\* returns (W, true, nil) and Get then returns W; otherwise it returns
\* (V, false, nil) and no key's value has changed.
C3_SequentialCmpAndSwap ==
    LET r == ret[1]
    IN r.op = "CmpAndSwap" /\ IsSet(r.pre, r.bucket, r.key) =>
         LET V == Stored(r.pre, r.bucket, r.key)
         IN IF BytesEqual(r.old, V)
            THEN /\ r.err = "nil" /\ r.swapped /\ BytesEqual(r.val, r.value)
                 /\ GetReturns(tables, r.bucket, r.key, r.value)
            ELSE /\ r.err = "nil" /\ ~r.swapped /\ BytesEqual(r.val, V)
                 /\ tables = r.pre

\* C6: Set(b, k, v) on a created bucket, whatever k held: a Get(b, k) that
\* follows returns v, and no other key's value has changed.
C6_SetThenGet ==
    [][\A w \in Writes :
         Set(1, w[1], w[2], w[3]) /\ tables[w[1]].exists =>
            /\ GetReturns(tables', w[1], w[2], w[3])
            /\ OthersUnchanged(tables, tables', w[1], w[2])]_vars

\* C7: Get(b, k) of a key that is not set, in a bucket that exists or not,
\* fails with an error classified as NotFound.
C7_GetAbsentIsNotFound ==
    ret[1].op = "Get" /\ ~IsSet(tables, ret[1].bucket, ret[1].key) =>
        IsErrNotFound(ret[1].err)

\* C8: Del(b, k) in a created bucket: of a key that is not set, it returns no
\* error and changes nothing; of a key that is set, it returns no error, Get
\* then fails with NotFound, and every other key keeps its value.
C8_DelUnconditional ==
    [][\A r \in Reads :
         Del(1, r[1], r[2]) /\ tables[r[1]].exists =>
            /\ ret'[1].err = "nil"
            /\ IF IsSet(tables, r[1], r[2])
               THEN /\ IsErrNotFound(GetResult(tables', r[1], r[2]).err)
                    /\ OthersUnchanged(tables, tables', r[1], r[2])
               ELSE tables' = tables]_vars

\* C9: DeleteTable of a bucket that does not exist fails with an error
\* classified as NotFound and changes nothing, called directly or as an
\* Operation of Update; DeleteTable of a bucket that exists removes it with
\* all its keys.
C9_DeleteTable ==
    [][\A b \in Buckets :
         /\ DeleteTable(1, b) =>
               IF tables[b].exists
               THEN /\ ret'[1].err = "nil"
                    /\ tables' = [tables EXCEPT ![b] = NoTable]
               ELSE IsErrNotFound(ret'[1].err) /\ tables' = tables
         /\ UpdateOp(1, Op("DeleteTable", b, "", Nil, Nil)) /\ ~ViewOf(tx[1])[b].exists =>
               IsErrNotFound(ret'[1].err) /\ tables' = tables]_vars

\* The committed tables once CreateTable(b) is applied to the current state.
CreateTableAgain(b) ==
    LET o == createTableQry(tables, b)
    IN IF AutoErr(1, o) = "nil" THEN o.db ELSE tables

\* C10: CreateTable on a bucket that exists returns no error and changes no
\* key or value of any bucket; applying CreateTable a second time changes
\* nothing.
C10_CreateTableIdempotent ==
    [][\A b \in Buckets :
         CreateTable(1, b) =>
            /\ tables[b].exists => ret'[1].err = "nil" /\ tables' = tables
            /\ CreateTableAgain(b)' = tables']_vars

\* CreateTable returned without error on a bucket holding a key.
C10_Witness ==
    /\ ret[1].op = "CreateTable" /\ ret[1].err = "nil"
    /\ \E k \in Keys : IsSet(tables, ret[1].bucket, k)

----------------------------------------------------------------------------
(* Properties of concurrent callers (CasSpec, IsoSpec). *)

\* C2, as amended: in every interleaving of CmpAndSwap, Set and Del calls of
\* two callers on one key, a CmpAndSwap that returns swapped = true committed
\* its write, and only its write, on a committed value equal to its oldValue;
\* and when a concurrent CmpAndSwap with the same oldValue has returned
\* swapped = true and its write still stands, the two new values are equal or
\* that write put oldValue back.
C2_AtomicCmpAndSwap ==
    [][\A p \in Procs :
         CasCommit(p) /\ ret'[p].swapped =>
            LET c == call[p]
            IN /\ BytesEqual(Stored(tables, c.bucket, c.key), c.old)
               /\ tables' = insertUpdateQry(tables, c.bucket, c.key, c.value).db
               /\ c.rival # NoRival =>
                     BytesEqual(c.rival, c.value) \/ BytesEqual(c.rival, c.old)]_vars

\* Two CmpAndSwap calls of the same key with the same oldValue overlapped and
\* both returned swapped = true.
C2_Witness ==
    \E p \in Procs :
        ret[p].op = "CmpAndSwap" /\ ret[p].swapped /\ ret[p].rival # NoRival

\* C2, as stated: ... and two concurrent CmpAndSwap calls with the same
\* oldValue and different new values never both return swapped = true.
C2_NeverBothSwapped ==
    [][\A p \in Procs :
         CasCommit(p) /\ ret'[p].swapped =>
            LET c == call[p]
            IN /\ BytesEqual(Stored(tables, c.bucket, c.key), c.old)
               /\ c.rival # NoRival => BytesEqual(c.rival, c.value)]_vars

\* What a Get or a List returned, or returns on the tables d.
Observed(r) == [err |-> r.err, val |-> r.val, entries |-> r.entries]
GetObs(d, b, k) ==
    LET g == GetResult(d, b, k) IN [err |-> g.err, val |-> g.val, entries |-> {}]
ListObs(d, b) ==
    LET l == ListResult(d, b) IN [err |-> l.err, val |-> Nil, entries |-> l.entries]

\* An Update of caller 1 is in flight, or was its last call and returned an
\* error; Before is the committed tables when it was called.
Unfinished == pc[1] = "upd" \/ (ret[1].op = "Update" /\ ret[1].err # "nil")
Before == IF pc[1] = "upd" THEN call[1].pre ELSE ret[1].pre

\* C5: while an Update of caller 1 is in flight and after it returned an
\* error, a Get or a List of caller 2 returns what it returned before the
\* Update was called; and when the Update commits, every Get and List returns
\* from then on what it returns on the tables the transaction built (all of
\* its writes).
C5_Isolation ==
    [][/\ \A b \in Buckets, k \in Keys :
             Get(2, b, k) /\ Unfinished => Observed(ret'[2]) = GetObs(Before, b, k)
       /\ \A b \in Buckets :
             List(2, b) /\ Unfinished => Observed(ret'[2]) = ListObs(Before, b)
       /\ UpdateCommit(1) /\ ret'[1].err = "nil" =>
             /\ \A b \in Buckets, k \in Keys :
                   GetObs(tables', b, k) = GetObs(ViewOf(tx[1]), b, k)
             /\ \A b \in Buckets : ListObs(tables', b) = ListObs(ViewOf(tx[1]), b)]_vars

\* An Update returned an error after caller 2 had read while its changes
\* were uncommitted.
C5_Witness ==
    ret[1].op = "Update" /\ ret[1].err # "nil" /\ ret[1].dirty /\ ret[1].read

----------------------------------------------------------------------------
(* Further properties of one caller's calls (Spec). *)

\* C11: List(b) on a bucket that exists returns exactly one entry per key set
\* in b, with its committed value and the bucket name b; List(b) on a bucket
\* that does not exist fails with an error classified as NotFound.
C11_ListExact ==
    LET r == ret[1]
    IN r.op = "List" =>
         IF tables[r.bucket].exists
         THEN /\ r.err = "nil"
              /\ r.entries = {[Bucket |-> r.bucket, Key |-> k,
                               Value |-> Stored(tables, r.bucket, k)] :
                                 k \in {x \in Keys : IsSet(tables, r.bucket, x)}}
         ELSE IsErrNotFound(r.err)

\* The commands Update does not support.
Unsupported == {"CmpOrRollback", "Unknown"}

\* C12: when Update comes to an Operation with an unsupported command, it
\* returns there with an error classified as OpNotSupported: the Operation is
\* not skipped, no later Operation is executed, and nothing of the
\* transaction is committed.
C12_UnsupportedOperation ==
    [][\A q \in Ops :
         q.Cmd \in Unsupported /\ pc[1] = "upd" /\ UpdateOp(1, q) =>
            /\ pc'[1] = "idle"
            /\ ret'[1].op = "Update" /\ IsErrOpNotSupported(ret'[1].err)
            /\ ret'[1].n = call[1].n
            /\ ret'[1].txend # "committed"
            /\ tables' = call[1].pre]_vars

\* An Update returned at an unsupported Operation that came after a write.
C12_Witness ==
    /\ ret[1].op = "Update" /\ ret[1].cmd \in Unsupported
    /\ ret[1].n = 1 /\ ret[1].dirty

----------------------------------------------------------------------------
(* Rollbacks that fail (FaultSpec). *)

\* The error of a sqlTx.Rollback() that fails.
RollbackErr == "rollback error"

\* After a Rollback that failed the connection has released the locks of
\* the transaction, or it has not.
RollbackFailed(t) ==
    /\ tables' = tables
    /\ \E kept \in BOOLEAN : leak' = IF kept THEN MaxLock(leak, t.lock) ELSE leak

\* DB.CmpAndSwap when cmpAndSwap's read fails or finds another value, and
\* sqlTx.Rollback() fails: the error returned wraps the Rollback's error.
CasReadRollbackFails(p) ==
    /\ pc[p] = "cas_begun"
    /\ UNCHANGED factory
    /\ LET c == call[p]
           r == cmpAndSwapRead(tx[p], c.bucket, c.key, c.old)
       IN /\ ~(r.err = "nil" /\ r.match)
          /\ RollbackFailed(r.tx)
          /\ tx' = [tx EXCEPT ![p] = NoTx]
          /\ Return(p, [c EXCEPT !.err = RollbackErr,
                           !.wrap = IF r.err # "nil"
                                    THEN "failed to execute CmpAndSwap transaction and failed to rollback transaction"
                                    ELSE "failed to rollback read-only CmpAndSwap transaction",
                           !.val = Nil, !.swapped = FALSE, !.txend = "rollback failed"])

\* DB.CmpAndSwap when cmpAndSwap's upsert fails and sqlTx.Rollback() fails.
CasWriteRollbackFails(p) ==
    /\ pc[p] = "cas_matched"
    /\ UNCHANGED factory
    /\ LET c == call[p]
           w == cmpAndSwapWrite(p, tx[p], c.bucket, c.key, c.value)
       IN /\ w.err # "nil"
          /\ RollbackFailed(w.tx)
          /\ tx' = [tx EXCEPT ![p] = NoTx]
          /\ Return(p, [c EXCEPT !.err = RollbackErr,
                           !.wrap = "failed to execute CmpAndSwap transaction and failed to rollback transaction",
                           !.val = Nil, !.swapped = FALSE, !.txend = "rollback failed"])

\* Update's rollback(err) when sqlTx.Rollback() fails: err is wrapped with
\* another message, the Rollback's error is dropped.
UpdateOpRollbackFails(p, q) ==
    /\ pc[p] = "upd"
    /\ UNCHANGED factory
    /\ call[p].n < MaxOps
    /\ LET r == Operation(p, tx[p], q)
           c == [call[p] EXCEPT !.cmd = q.Cmd, !.val = r.val, !.swapped = r.swapped,
                                !.dirty = r.tx.dirty]
       IN /\ r.how = "rollback"
          /\ RollbackFailed(r.tx)
          /\ tx' = [tx EXCEPT ![p] = NoTx]
          /\ Return(p, [c EXCEPT !.err = r.err,
                           !.wrap = "UPDATE failed, unable to rollback transaction",
                           !.txend = "rollback failed", !.before = ResultOf(call[p])])

\* The transactions and calls tried with failing rollbacks.
FaultOps ==
    {Op("Set", "b1", "k1", "v1", Nil), Op("Get", "b1", "k2", Nil, Nil),
     Op("Delete", "b2", "k1", Nil, Nil), Op("DeleteTable", "b2", "", Nil, Nil),
     Op("CmpAndSwap", "b1", "k2", "v1", "v1")}

FaultNext ==
    \/ CreateTable(1, "b1")
    \/ Set(1, "b1", "k1", "v1")
    \/ \E b \in Buckets, old \in {"", "v1"} : CasBegin(1, b, "k1", old, "v1", FALSE)
    \/ CasRead(1)
    \/ CasWrite(1)
    \/ CasCommit(1)
    \/ CasReadRollbackFails(1)
    \/ CasWriteRollbackFails(1)
    \/ UpdateBegin(1, FALSE)
    \/ \E q \in FaultOps : UpdateOp(1, q)
    \/ \E q \in FaultOps : UpdateOpRollbackFails(1, q)
    \/ UpdateCommit(1)

FaultSpec == Init /\ [][FaultNext]_vars

\* The error r says that a Rollback failed.
TellsRollbackFailed(r) ==
    \/ r.err = RollbackErr
    \/ r.wrap \in {"UPDATE failed, unable to rollback transaction",
                   "failed to execute CmpAndSwap transaction and failed to rollback transaction",
                   "failed to rollback read-only CmpAndSwap transaction"}

\* The error r is the failure e of an operation, wrapped or not.
KeepsFailure(r, e) == e # "nil" /\ r.err = e

\* C13: when an operation of Update or of CmpAndSwap fails and the Rollback
\* that follows fails too, the error returned says that the Rollback failed
\* (which the error returned after a Rollback that succeeded does not) and
\* still is the operation's failure: neither failure replaces the other.
C13_BothFailuresReported ==
    [][/\ \A q \in FaultOps :
             UpdateOpRollbackFails(1, q) =>
                /\ TellsRollbackFailed(ret'[1])
                /\ KeepsFailure(ret'[1], Operation(1, tx[1], q).err)
       /\ CasReadRollbackFails(1) =>
             LET e == cmpAndSwapRead(tx[1], call[1].bucket, call[1].key, call[1].old).err
             IN e # "nil" => TellsRollbackFailed(ret'[1]) /\ KeepsFailure(ret'[1], e)
       /\ CasWriteRollbackFails(1) =>
             LET e == cmpAndSwapWrite(1, tx[1], call[1].bucket, call[1].key, call[1].value).err
             IN TellsRollbackFailed(ret'[1]) /\ KeepsFailure(ret'[1], e)]_vars

\* What a call that reported success has left committed.
NoLostWrite(r) ==
    /\ r.op = "Set" /\ r.err = "nil" => Cell(tables, r.bucket, r.key) = Bind(r.value)
    /\ r.op = "CmpAndSwap" /\ r.err = "nil" /\ r.swapped =>
          r.txend = "committed" /\ Cell(tables, r.bucket, r.key) = Bind(r.value)
    /\ r.op = "Update" /\ r.err = "nil" => r.txend = "committed"

\* C14: a Set or an Update that returned nil, and a CmpAndSwap that returned
\* swapped = true with a nil error, has its writes in the committed tables
\* (for Update: the tables its Operations built); and when a statement or the
\* native commit fails, the call returns an error and no success.
C14_NoLostWrite ==
    [][/\ NoLostWrite(ret[1])'
       /\ UpdateCommit(1) =>
             IF CommitErr(1, tx[1]) = "nil"
             THEN ret'[1].err = "nil" /\ tables' = ViewOf(tx[1])
             ELSE ret'[1].err # "nil" /\ tables' = tables
       /\ pc[1] = "upd" /\ call'[1].n = call[1].n + 1 =>
             \A q \in Ops :
                q.Cmd = call'[1].cmd /\ UpdateOp(1, q) => Operation(1, tx[1], q).err = "nil"
       /\ pc[1] = "upd" /\ pc'[1] = "idle" /\ ~UpdateCommit(1) =>
             ret'[1].err # "nil" /\ tables' = tables
       /\ pc[1] = "idle" /\ ret'[1].op = "Set" =>
             LET r == ret'[1]
             IN Set(1, r.bucket, r.key, r.value)
                   /\ AutoErr(1, insertUpdateQry(tables, r.bucket, r.key, r.value)) # "nil" =>
                      r.err # "nil" /\ tables' = tables
       /\ CasWrite(1)
             /\ cmpAndSwapWrite(1, tx[1], call[1].bucket, call[1].key, call[1].value).err # "nil" =>
                ret'[1].err # "nil" /\ ~ret'[1].swapped /\ tables' = tables
       /\ CasCommit(1) /\ CommitErr(1, tx[1]) # "nil" =>
             ret'[1].err # "nil" /\ ~ret'[1].swapped /\ tables' = tables]_vars

\* The native commit of an Update with changes failed.
C14_Witness ==
    /\ ret[1].op = "Update" /\ ret[1].dirty /\ ret[1].n >= 1
    /\ ret[1].wrap = "UPDATE failed, unable to rollback transaction"

----------------------------------------------------------------------------
(* C15: the Operations of one Update see each other's effects. *)

\* The Get and the CmpAndSwap Operation that Update's loop would run next on
\* the key of Operation q.
GetAfter(q) == Operation(1, tx[1], Op("Get", q.Bucket, q.Key, Nil, Nil))
CmpAndSwapAfter(q, old) == Operation(1, tx[1], Op("CmpAndSwap", q.Bucket, q.Key, "v1", old))

\* C15: after a Set Operation of an Update, a Get Operation on the same
\* bucket and key in the same Update receives the value of the Set in Result;
\* after a Delete Operation it fails with NotFound; and a CmpAndSwap
\* Operation compares with the value the Set left (the empty value after a
\* Delete), whatever is committed.
C15_InOrderVisibility ==
    [][pc[1] = "upd" /\ call'[1].n = call[1].n + 1 /\ call'[1].cmd \in {"Set", "Delete"} =>
          \A q \in Ops :
             q.Cmd = call'[1].cmd /\ UpdateOp(1, q) =>
                LET left == IF q.Cmd = "Set" THEN q.Value ELSE Nil
                IN /\ IF q.Cmd = "Set"
                      THEN GetAfter(q)'.err = "nil" /\ BytesEqual(GetAfter(q)'.val, q.Value)
                      ELSE GetAfter(q)'.how = "rollback" /\ IsErrNotFound(GetAfter(q)'.err)
                   /\ \A old \in SeqValues :
                         /\ CmpAndSwapAfter(q, old)'.err = "nil"
                         /\ CmpAndSwapAfter(q, old)'.swapped = BytesEqual(left, old)]_vars

----------------------------------------------------------------------------
(* C16: the factory. *)

OpenErrs == {"nil", "open error"}

\* The driver names tried: the names of the drivers in lower case, some in
\* other cases, and names of no driver.
DriverNames ==
    {BadgerDriver, BadgerV1Driver, BadgerV2Driver, BBoltDriver, MySQLDriver,
     PostgreSQLDriver, SQLiteDriver}
    \cup {<<"S", "Q", "L", "i", "t", "e">>, <<"S", "Q", "L", "I", "T", "E">>, <<"B", "a", "d", "g", "e", "r", "V", "2">>, <<"M", "y", "S", "Q", "L">>,
          <<"P", "o", "s", "t", "g", "r", "e", "S", "Q", "L">>, <<"B", "B", "O", "L", "T">>}
    \cup {<<>>, <<"b", "o", "l", "t">>, <<"s", "q", "l", "i", "t", "e", "3">>, <<"m", "o", "n", "g", "o", "d", "b">>}

NewNext == \E d \in DriverNames, e \in OpenErrs : New(d, e)

NewSpec == Init /\ [][NewNext]_vars

\* Two characters that are the same letter, whatever their case.
SameLetter(c, d) == c = d \/ \E i \in 1..26 : {c, d} = {UpperCase[i], LowerCase[i]}

\* Name s is driver name d, case apart.
EqualFold(s, d) == Len(s) = Len(d) /\ \A i \in 1..Len(s) : SameLetter(s[i], d[i])

\* The adapters the documented driver names stand for.
Resolves(s, a) ==
    \/ a = "badgerV1.DB" /\ (EqualFold(s, BadgerDriver) \/ EqualFold(s, BadgerV1Driver))
    \/ a = "badgerV2.DB" /\ EqualFold(s, BadgerV2Driver)
    \/ a = "bolt.DB" /\ EqualFold(s, BBoltDriver)
    \/ a = "mysql.DB" /\ EqualFold(s, MySQLDriver)
    \/ a = "postgresql.DB" /\ EqualFold(s, PostgreSQLDriver)
    \/ a = "sqlite.DB" /\ EqualFold(s, SQLiteDriver)

\* C16: New called with a driver name that is, case apart, the name of a
\* driver returns that driver's adapter after exactly one Open call, made on
\* that adapter, and returns what Open returned; called with any other name
\* it returns a nil Store and an error, and no Open call is made on any adapter.
C16_NewResolvesDriver ==
    [][\A d \in {factory'.driver}, e \in OpenErrs :
          New(d, e) =>
             IF \E a \in Adapters : Resolves(d, a)
             THEN \E a \in Adapters :
                     /\ Resolves(d, a)
                     /\ \A b \in Adapters : Resolves(d, b) => b = a
                     /\ factory'.db = a /\ factory'.err = e
                     /\ factory'.opens = [factory.opens EXCEPT ![a] = @ + 1]
             ELSE /\ factory'.db = "nil" /\ factory'.err # "nil"
                  /\ factory'.opens = factory.opens]_vars

\* New has returned the SQLite adapter, opened once, for a name not in lower case.
C16_Witness ==
    /\ factory.db = "sqlite.DB" /\ factory.opens["sqlite.DB"] = 1
    /\ OpenCalls(factory.opens, Adapters) > 1
    /\ factory.driver # ToLower(factory.driver)

----------------------------------------------------------------------------
(* C17: a CmpAndSwap Operation that does not match. *)

\* The bytes under key k of bucket b in tables d: none without a row or in
\* a NULL.
Current(d, b, k) == IF Cell(d, b, k) \in {NoRow, Null} THEN Nil ELSE Cell(d, b, k)

\* Operation q is a CmpAndSwap on a bucket of transaction t whose CmpValue
\* is not the value that t sees under the key.
Mismatch(t, q) ==
    /\ q.Cmd = "CmpAndSwap"
    /\ ViewOf(t)[q.Bucket].exists
    /\ ~BytesEqual(Current(ViewOf(t), q.Bucket, q.Key), q.CmpValue)

\* C17: in an Update, a CmpAndSwap Operation whose CmpValue differs from the
\* current value of the key does not end the Update: Swapped is false, Result
\* is the current value, the transaction's tables stay as they were, nothing is
\* rolled back and the loop goes on; and the Update whose last Operation was
\* such a CmpAndSwap commits what its other Operations did and returns nil.
C17_MismatchIsNoFailure ==
    [][/\ pc[1] = "upd" /\ call'[1].cmd = "CmpAndSwap" =>
             \A q \in Ops :
                Mismatch(tx[1], q) /\ UpdateOp(1, q) =>
                   /\ pc'[1] = "upd" /\ call'[1].n = call[1].n + 1
                   /\ ~call'[1].swapped
                   /\ BytesEqual(call'[1].val, Current(ViewOf(tx[1]), q.Bucket, q.Key))
                   /\ ViewOf(tx'[1]) = ViewOf(tx[1])
                   /\ tables' = tables
       /\ call[1].cmd = "CmpAndSwap" /\ ~call[1].swapped /\ UpdateCommit(1) =>
             /\ ret'[1].err = "nil" /\ ret'[1].txend = "committed"
             /\ tables' = ViewOf(tx[1])]_vars

----------------------------------------------------------------------------
(* C18: CmpAndSwap on an absent key. *)

\* What CmpAndSwap returned, and left under its key, when it found its key
\* holding the empty value or no value: with an old value that is nil or empty
\* (new, true, nil) and the key holding new, otherwise (empty, false, nil) and
\* the key as it was.
AsOnEmpty(r) ==
    IF BytesEqual(r.old, "")
    THEN /\ r.err = "nil" /\ r.swapped /\ BytesEqual(r.val, r.value)
         /\ Cell(tables, r.bucket, r.key) = Bind(r.value)
    ELSE /\ r.err = "nil" /\ ~r.swapped /\ BytesEqual(r.val, "")
         /\ tables = r.pre

\* C18: CmpAndSwap on an existing bucket and an absent key returns, and
\* leaves, what it does on a key stored with the empty value: it swaps when
\* old is nil or empty and creates the key with value new, and with a
\* non-empty old it returns (empty, false, nil) and the key stays absent.
C18_AbsentKeyIsEmpty ==
    LET r == ret[1]
    IN r.op = "CmpAndSwap" /\ Cell(r.pre, r.bucket, r.key) \in {NoRow, ""} => AsOnEmpty(r)

----------------------------------------------------------------------------
(* C19: Update and the methods called one by one. *)

\* What a method that runs one statement with db.db.Exec returns and leaves,
\* on the committed tables d.
ExecResult(d, o) ==
    LET e == AutoErr(1, o)
    IN [err |-> e, db |-> IF e = "nil" THEN o.db ELSE d, val |-> Nil, swapped |-> FALSE]

\* What DB.CmpAndSwap returns and leaves on the committed tables d.
CmpAndSwapResult(d, b, k, old, new) ==
    LET s == ScanBytes(getQryForUpdate(d, b, k))
        e == AutoErr(1, insertUpdateQry(d, b, k, new))
    IN IF s.err \notin {"nil", "sql.ErrNoRows"}
       THEN [err |-> s.err, db |-> d, val |-> Nil, swapped |-> FALSE]
       ELSE IF ~BytesEqual(s.val, old)
       THEN [err |-> "nil", db |-> d, val |-> s.val, swapped |-> FALSE]
       ELSE IF e # "nil"
       THEN [err |-> e, db |-> d, val |-> Nil, swapped |-> FALSE]
       ELSE [err |-> "nil", db |-> insertUpdateQry(d, b, k, new).db, val |-> new,
             swapped |-> TRUE]

\* The method of the Store that does what Operation q asks for, called on
\* the committed tables d: its error, the tables it leaves and what it returns.
Method(d, q) ==
    CASE q.Cmd = "CreateTable" -> ExecResult(d, createTableQry(d, q.Bucket))
      [] q.Cmd = "DeleteTable" -> ExecResult(d, deleteTableQry(d, q.Bucket))
      [] q.Cmd = "Get" ->
            [err |-> GetResult(d, q.Bucket, q.Key).err, db |-> d,
             val |-> GetResult(d, q.Bucket, q.Key).val, swapped |-> FALSE]
      [] q.Cmd = "Set" -> ExecResult(d, insertUpdateQry(d, q.Bucket, q.Key, q.Value))
      [] q.Cmd = "Delete" -> ExecResult(d, delQry(d, q.Bucket, q.Key))
      [] q.Cmd = "CmpAndSwap" -> CmpAndSwapResult(d, q.Bucket, q.Key, q.CmpValue, q.Value)

\* The Operation that asks for what the call returning r did.
AsOperation(r) ==
    Op(IF r.op = "Del" THEN "Delete" ELSE r.op, r.bucket, r.key, r.value, r.old)

\* C19: every method of the Store, called on its own, returns and leaves
\* what Method says; every Operation of an Update that can commit returns in
\* Result and Swapped, and leaves in the transaction's tables, what its method
\* returns and leaves on the tables the Operations before it left; the commit
\* makes the transaction's tables the committed ones and Update returns nil;
\* and an Update with no Operations returns nil and changes nothing.
C19_UpdateAsMethodsInOrder ==
    [][/\ pc'[1] = "idle"
             /\ ret'[1].op \in {"CreateTable", "DeleteTable", "Get", "Set", "Del", "CmpAndSwap"} =>
             LET r == ret'[1]
                 m == Method(tables, AsOperation(r))
             IN /\ (r.err = "nil") = (m.err = "nil")
                /\ tables' = m.db
                /\ BytesEqual(r.val, m.val) /\ r.swapped = m.swapped
       /\ pc[1] = "upd" /\ call'[1].n = call[1].n + 1 /\ CommitErr(1, tx[1])' = "nil" =>
             \A q \in Ops :
                q.Cmd = call'[1].cmd /\ UpdateOp(1, q) =>
                   LET m == Method(ViewOf(tx[1]), q)
                   IN /\ m.err = "nil"
                      /\ ViewOf(tx[1])' = m.db
                      /\ BytesEqual(call'[1].val, m.val) /\ call'[1].swapped = m.swapped
       /\ UpdateCommit(1) /\ CommitErr(1, tx[1]) = "nil" =>
             /\ ret'[1].err = "nil" /\ tables' = ViewOf(tx[1])
             /\ ret'[1].val = call[1].val /\ ret'[1].swapped = call[1].swapped
       /\ UpdateCommit(1) /\ call[1].n = 0 => ret'[1].err = "nil" /\ tables' = tables]_vars

\* An Update of a Set and a Get of the key set has returned nil.
C19_Witness ==
    /\ ret[1].op = "Update" /\ ret[1].err = "nil" /\ ret[1].txend = "committed"
    /\ ret[1].n = 2 /\ ret[1].dirty /\ ret[1].cmd = "Get" /\ ret[1].val = "v1"
    /\ Cell(ret[1].pre, "b1", "k1") # "v1" /\ Cell(ret[1].pre, "b1", "k2") # "v1"
    /\ Cell(ret[1].pre, "b2", "k1") # "v1"

----------------------------------------------------------------------------
(* C20: the Result fields after an Update that failed. *)

\* Value v is empty or is held by a key of the committed tables.
InCommitted(v) ==
    BytesEqual(v, "") \/ \E b \in Buckets, k \in Keys : Cell(tables, b, k) = v

\* C20: when Update has returned an error, the Result of the Operation it
\* ran last, and of the Operation before the failing one, is empty or a
\* value of the committed tables, and no Operation ran after the failing one.
C20_NoRolledBackResult ==
    [][pc[1] = "upd" /\ pc'[1] = "idle" /\ ret'[1].err # "nil" =>
          /\ InCommitted(ret[1].val)' /\ InCommitted(ret[1].before.val)'
          /\ ret'[1].n = call[1].n]_vars

====
